---- MODULE Spec2Model ----
(***************************************************************************)
(* Model of the easyssh server: Server.Serve's accept loop with backoff,   *)
(* the per-connection goroutine conn.serve with its deferred recover/close *)
(* and the per-session dispatch wrapper serverHandler.ServeSSH.            *)
(*                                                                         *)
(* One goroutine of the program is one family of actions; an action is the *)
(* code a goroutine runs between two blocking points (Accept, the          *)
(* handshake, a receive on the channel stream, the Handler call).          *)
(* An unrecovered panic in a goroutine terminates a Go program: that is    *)
(* the variable crashed.                                                   *)
(***************************************************************************)
EXTENDS Integers, Sequences, FiniteSets, TLC

\* ---------------------------------------------------------------- bounds
MaxConns == 2       \* sockets the listener hands out
MaxChans == 2       \* logical channels the clients offer, over all connections
MaxHostKeys == 1    \* AddHostKey calls before Serve
MaxConsec == 9      \* consecutive temporary accept errors (9 reaches the 1s cap)
MaxStreams == 2     \* request streams wrapped by wrapRequests in RelaySpec
MaxMsgs == 3        \* requests the transport delivers, over all streams

\* ------------------------------------------------------------- constants
StateNew == 0
StateHandshake == 1
StateActive == 2
StateClosed == 3

Millisecond == 1                    \* delays are counted in milliseconds
Second == 1000 * Millisecond
InitialDelay == 5 * Millisecond
MaxDelay == 1 * Second

\* The errors Accept can return: whether the value implements net.Error and
\* what its Temporary() answers.
AcceptErrors ==
  { [name |-> "EMFILE", netError |-> TRUE, temporary |-> TRUE],
    [name |-> "EINVAL", netError |-> TRUE, temporary |-> FALSE],
    [name |-> "closed", netError |-> FALSE, temporary |-> FALSE] }

NoError == [name |-> "nil", netError |-> FALSE, temporary |-> FALSE]
NotCalled == [name |-> "not called", netError |-> FALSE, temporary |-> FALSE]
ErrServerHasNoHostKeys ==
  [name |-> "server has no host keys", netError |-> FALSE, temporary |-> FALSE]

ChannelTypes == {"session", "direct-tcpip"}

VARIABLES
  HostKeyCount,    \* srv.HostKeyCount
  servePc,         \* Serve: "idle", "accept", "sleep", "returned"
  serveErr,        \* the error Serve returned (NoError while it runs)
  tempDelay,       \* Serve's local tempDelay
  listenerClosed,  \* l.Close() has run
  lastAccept,      \* what the last l.Accept() returned: NotCalled, NoError or an error
  consec,          \* temporary accept errors since the last successful accept
  nConns,          \* connections created by newConn; they are 1..nConns
  pc,              \* per connection: position of its conn.serve goroutine
  connStates,      \* per connection: the states passed to the ConnState hook
  rwcClosed,       \* per connection: c.rwc.Close() has run
  errLog,          \* per connection: what srv.logf wrote about it
  handshakeErr,    \* per connection: what ssh.NewServerConn returned ("none" before)
  pump,            \* per connection: go ssh.DiscardRequests(reqs) was started
  chanLog,         \* per connection: the channel offers and what became of each
  sessions,        \* per connection: the sessions dispatched to a Handler
  crashed,         \* the process died of an unrecovered panic
  kind,            \* per stream: the Handler ranges over its requests, or is any other
  sent,            \* per stream: every request the transport delivered, in order
  requests,        \* per stream: the source channel's buffered requests
  requestsClosed,  \* per stream: the transport closed the source channel
  fwd,             \* per stream: wrapRequests' goroutine: "none", "recv", "send", "ended"
  held,            \* per stream: the wrapped request the goroutine is sending
  wrappedClosed,   \* per stream: the wrapped channel is closed
  received,        \* per stream: the wrapped requests the Handler received
  hnd              \* per stream: the Handler: "none", "running", "returned"

vars == << HostKeyCount, servePc, serveErr, tempDelay, listenerClosed,
           lastAccept, consec, nConns, pc, connStates, rwcClosed, errLog,
           handshakeErr, pump, chanLog, sessions, crashed,
           kind, sent, requests, requestsClosed, fwd, held, wrappedClosed,
           received, hnd >>

relayVars == << kind, sent, requests, requestsClosed, fwd, held, wrappedClosed,
                received, hnd >>

serveVars == << HostKeyCount, servePc, serveErr, tempDelay, listenerClosed,
                lastAccept, consec, nConns >>
connVars == << pc, connStates, rwcClosed, errLog, handshakeErr, pump, chanLog,
              sessions >>

Conns == 1..MaxConns
Streams == 1..MaxStreams

Range(s) == { s[i] : i \in 1..Len(s) }

RECURSIVE SumLen(_, _)
SumLen(f, n) == IF n = 0 THEN 0 ELSE Len(f[n]) + SumLen(f, n - 1)

\* Channel offers delivered so far, over all connections.
Offers == SumLen(chanLog, MaxConns)

Init ==
  /\ HostKeyCount = 0
  /\ servePc = "idle"
  /\ serveErr = NoError
  /\ tempDelay = 0
  /\ listenerClosed = FALSE
  /\ lastAccept = NotCalled
  /\ consec = 0
  /\ nConns = 0
  /\ pc = [c \in Conns |-> "none"]
  /\ connStates = [c \in Conns |-> << >>]
  /\ rwcClosed = [c \in Conns |-> FALSE]
  /\ errLog = [c \in Conns |-> << >>]
  /\ handshakeErr = [c \in Conns |-> "none"]
  /\ pump = [c \in Conns |-> FALSE]
  /\ chanLog = [c \in Conns |-> << >>]
  /\ sessions = [c \in Conns |-> << >>]
  /\ crashed = FALSE
  /\ kind = [s \in Streams |-> "other"]
  /\ sent = [s \in Streams |-> << >>]
  /\ requests = [s \in Streams |-> << >>]
  /\ requestsClosed = [s \in Streams |-> FALSE]
  /\ fwd = [s \in Streams |-> "none"]
  /\ held = [s \in Streams |-> << >>]
  /\ wrappedClosed = [s \in Streams |-> FALSE]
  /\ received = [s \in Streams |-> << >>]
  /\ hnd = [s \in Streams |-> "none"]

\* ------------------------------------------------------------- helpers

\* conn.setState: the hook is called with the state.
setState(c, state) == [connStates EXCEPT ![c] = Append(@, state)]

\* srv.logf about connection c.
logf(c, what) == [errLog EXCEPT ![c] = Append(@, what)]

\* ------------------------------------------------------------- Server

\* AddHostKey with a key that parses.
AddHostKey ==
  /\ ~crashed
  /\ UNCHANGED relayVars
  /\ servePc = "idle"
  /\ HostKeyCount < MaxHostKeys
  /\ HostKeyCount' = HostKeyCount + 1
  /\ UNCHANGED << servePc, serveErr, tempDelay, listenerClosed, lastAccept,
                  consec, nConns, crashed >>
  /\ UNCHANGED connVars

NoHostKeysAlways == FALSE
\* Serve's test of the host-key count.
NoHostKeys == HostKeyCount = 0

\* Serve is called: with no host keys it returns at once (the deferred
\* l.Close() runs), otherwise it enters the accept loop.
ServeBegin ==
  /\ ~crashed
  /\ UNCHANGED relayVars
  /\ servePc = "idle"
  /\ IF NoHostKeys
       THEN /\ servePc' = "returned"
            /\ serveErr' = ErrServerHasNoHostKeys
            /\ listenerClosed' = TRUE
       ELSE /\ servePc' = "accept"
            /\ UNCHANGED << serveErr, listenerClosed >>
  /\ tempDelay' = 0
  /\ UNCHANGED << HostKeyCount, lastAccept, consec, nConns, crashed >>
  /\ UNCHANGED connVars

IsTemporaryNever(e) == FALSE
\* ne, ok := e.(net.Error); ok && ne.Temporary()
IsTemporary(e) == e.netError /\ e.temporary

Min(a, b) == IF a < b THEN a ELSE b

NextDelayNoCap(d) == IF d = 0 THEN InitialDelay ELSE d * 2
\* The new tempDelay after a temporary error.
NextDelay(d) ==
  LET doubled == IF d = 0 THEN InitialDelay ELSE d * 2
  IN  IF doubled > MaxDelay THEN MaxDelay ELSE doubled

\* Accept returns the error e (a temporary one at most limit times in a row).
AcceptError(e, limit) ==
  /\ ~crashed
  /\ UNCHANGED relayVars
  /\ servePc = "accept"
  /\ lastAccept' = e
  /\ IF IsTemporary(e)
       THEN /\ consec < limit
            /\ consec' = consec + 1
            /\ tempDelay' = NextDelay(tempDelay)
            /\ servePc' = "sleep"
            /\ UNCHANGED << serveErr, listenerClosed >>
       ELSE /\ servePc' = "returned"
            /\ serveErr' = e
            /\ listenerClosed' = TRUE
            /\ UNCHANGED << tempDelay, consec >>
  /\ UNCHANGED << HostKeyCount, nConns, crashed >>
  /\ UNCHANGED connVars

\* time.Sleep(tempDelay) ends; continue.
SleepDone ==
  /\ ~crashed
  /\ UNCHANGED relayVars
  /\ servePc = "sleep"
  /\ servePc' = "accept"
  /\ UNCHANGED << HostKeyCount, serveErr, tempDelay, listenerClosed, lastAccept,
                  consec, nConns, crashed >>
  /\ UNCHANGED connVars

\* tempDelay = 0 after a successful accept.
DelayAfterAccept == 0

AfterGoServeSync == "serving"
\* Where Serve is after go c.serve(ctx): the go statement returns at once, so
\* Serve is back at l.Accept(), not inside the connection's serve.
AfterGoServe == "accept"

\* Accept returns a socket: newConn, setState(StateNew), go c.serve(ctx).
AcceptOk ==
  /\ ~crashed
  /\ UNCHANGED relayVars
  /\ UNCHANGED handshakeErr
  /\ servePc = "accept"
  /\ nConns < MaxConns
  /\ lastAccept' = NoError
  /\ tempDelay' = DelayAfterAccept
  /\ consec' = 0
  /\ nConns' = nConns + 1
  /\ connStates' = setState(nConns + 1, StateNew)
  /\ pc' = [pc EXCEPT ![nConns + 1] = "go"]
  /\ servePc' = AfterGoServe
  /\ UNCHANGED << HostKeyCount, serveErr, listenerClosed, crashed >>
  /\ UNCHANGED << rwcClosed, errLog, pump, chanLog, sessions >>

\* ------------------------------------------------------------- conn.serve

\* c.remoteAddr is set, then setState(StateHandshake) and the handshake
\* (ssh.NewServerConn) begins.
ConnServeBegin(c) ==
  /\ ~crashed
  /\ UNCHANGED relayVars
  /\ UNCHANGED handshakeErr
  /\ pc[c] = "go"
  /\ connStates' = setState(c, StateHandshake)
  /\ pc' = [pc EXCEPT ![c] = "handshake"]
  /\ UNCHANGED serveVars
  /\ UNCHANGED << rwcClosed, errLog, pump, chanLog, sessions, crashed >>

HandshakeResults == {"nil", "EOF", "error"}

HandshakeFailedNever(err) == FALSE
\* if err != nil, after ssh.NewServerConn
HandshakeFailed(err) == err # "nil"

DeferredClosesAll(c, what) ==
  /\ errLog' = IF what # "none" THEN logf(c, what) ELSE errLog
  /\ rwcClosed' = [d \in Conns |-> TRUE]
  /\ pc' = [pc EXCEPT ![c] = "close"]

DeferredSkipsCloseOnPanic(c, what) ==
  /\ errLog' = IF what # "none" THEN logf(c, what) ELSE errLog
  /\ rwcClosed' = IF what = "panic" THEN rwcClosed ELSE [rwcClosed EXCEPT ![c] = TRUE]
  /\ pc' = [pc EXCEPT ![c] = IF what = "panic" THEN "done" ELSE "close"]

\* The deferred function of conn.serve up to c.rwc.Close(): recover() and, if
\* there was a panic, log it with c.remoteAddr; then c.close() closes the
\* socket. what is "panic" when the goroutine is unwinding a panic,
\* "handshake" when the handshake error was logged just before the return.
Deferred(c, what) ==
  /\ errLog' = IF what # "none" THEN logf(c, what) ELSE errLog
  /\ rwcClosed' = [rwcClosed EXCEPT ![c] = TRUE]
  /\ pc' = [pc EXCEPT ![c] = "close"]

\* ssh.NewServerConn returns. On an error: log it unless it is io.EOF, and
\* return (the deferred function runs). Otherwise setState(StateActive) and
\* go ssh.DiscardRequests(reqs).
HandshakeDone(c, err) ==
  /\ ~crashed
  /\ UNCHANGED relayVars
  /\ pc[c] = "handshake"
  /\ handshakeErr' = [handshakeErr EXCEPT ![c] = err]
  /\ IF HandshakeFailed(err)
       THEN /\ Deferred(c, IF err # "EOF" THEN "handshake" ELSE "none")
            /\ UNCHANGED << connStates, pump >>
       ELSE /\ connStates' = setState(c, StateActive)
            /\ pump' = [pump EXCEPT ![c] = TRUE]
            /\ pc' = [pc EXCEPT ![c] = "chans"]
            /\ UNCHANGED << errLog, rwcClosed >>
  /\ UNCHANGED serveVars
  /\ UNCHANGED << chanLog, sessions, crashed >>

IsSessionAlways(t) == TRUE
\* newChannel.ChannelType() != "session" is rejected
IsSession(t) == t = "session"

ParentPrevious(c) == Len(sessions[c])
\* ctx, cancelCtx := context.WithCancel(ctx): the := declares a new ctx in the
\* loop body, so the parent is always conn.serve's parameter (0), never the
\* context of an earlier session (its index).
Parent(c) == 0

\* The session a successful newChannel.Accept() leads to, its Handler started
\* by go serverHandler{c.server}.ServeSSH(...).
NewSession(c, t) ==
  [ctype |-> t, h |-> "running", cancels |-> 0, parent |-> Parent(c)]

AfterDispatchSync(c) == "dispatch"
\* Where the channel loop is after the go statement that starts the dispatch
\* wrapper (wrapRequests too only starts a goroutine): back at its receive,
\* not inside the Handler call.
AfterDispatch(c) == "chans"

OnAcceptErrorContinue(c) == UNCHANGED << pc, errLog, rwcClosed >>
\* if err != nil { return } after newChannel.Accept(): the deferred function
\* runs.
OnAcceptError(c) == Deferred(c, "none")

\* The channel stream delivers an offer of type t. Not a session: Reject and
\* continue. A session: Accept; if that fails return, otherwise derive the
\* context, wrap the requests and start the Handler in its own goroutine.
NewChannel(c, t, acceptOk) ==
  /\ ~crashed
  /\ UNCHANGED relayVars
  /\ UNCHANGED handshakeErr
  /\ pc[c] = "chans"
  /\ Offers < MaxChans
  /\ IF ~IsSession(t)
       THEN /\ chanLog' = [chanLog EXCEPT ![c] =
                             Append(@, [ctype |-> t, outcome |-> "rejected"])]
            /\ UNCHANGED << pc, sessions, errLog, rwcClosed >>
       ELSE IF ~acceptOk
         THEN /\ chanLog' = [chanLog EXCEPT ![c] =
                               Append(@, [ctype |-> t, outcome |-> "acceptFailed"])]
              /\ OnAcceptError(c)
              /\ UNCHANGED sessions
         ELSE /\ chanLog' = [chanLog EXCEPT ![c] =
                               Append(@, [ctype |-> t, outcome |-> "accepted"])]
              /\ sessions' = [sessions EXCEPT ![c] = Append(@, NewSession(c, t))]
              /\ pc' = [pc EXCEPT ![c] = AfterDispatch(c)]
              /\ UNCHANGED << errLog, rwcClosed >>
  /\ UNCHANGED serveVars
  /\ UNCHANGED << connStates, pump, crashed >>

\* The channel stream ends: the range loop ends, conn.serve returns and the
\* deferred function runs.
ChansClosed(c) ==
  /\ ~crashed
  /\ UNCHANGED relayVars
  /\ UNCHANGED handshakeErr
  /\ pc[c] = "chans"
  /\ Deferred(c, "none")
  /\ UNCHANGED serveVars
  /\ UNCHANGED << connStates, pump, chanLog, sessions, crashed >>

\* A panic in the conn.serve goroutine itself (inside the handshake or the
\* channel loop): the deferred function recovers it.
ServePanic(c) ==
  /\ ~crashed
  /\ UNCHANGED relayVars
  /\ UNCHANGED handshakeErr
  /\ pc[c] \in {"handshake", "chans"}
  /\ Deferred(c, "panic")
  /\ UNCHANGED serveVars
  /\ UNCHANGED << connStates, pump, chanLog, sessions, crashed >>

closeStatesTwice(c) ==
  [connStates EXCEPT ![c] = @ \o << StateClosed, StateClosed >>]
\* c.close()'s second statement: c.setState(c.rwc, StateClosed)
closeStates(c) == setState(c, StateClosed)

\* The rest of c.close(): Closed is reported and the goroutine ends.
CloseReport(c) ==
  /\ ~crashed
  /\ UNCHANGED relayVars
  /\ UNCHANGED handshakeErr
  /\ pc[c] = "close"
  /\ connStates' = closeStates(c)
  /\ pc' = [pc EXCEPT ![c] = "done"]
  /\ UNCHANGED serveVars
  /\ UNCHANGED << rwcClosed, errLog, pump, chanLog, sessions, crashed >>

\* ------------------------------------------------- serverHandler.ServeSSH

\* handler.ServeSSH(p, c, reqs) returns.
HandlerReturn(c, s) ==
  /\ ~crashed
  /\ UNCHANGED relayVars
  /\ UNCHANGED handshakeErr
  /\ s \in 1..Len(sessions[c])
  /\ sessions[c][s].h = "running"
  /\ sessions' = [sessions EXCEPT ![c][s].h = "returned"]
  /\ UNCHANGED serveVars
  /\ UNCHANGED << pc, connStates, rwcClosed, errLog, pump, chanLog, crashed >>

\* handler.ServeSSH panics. The wrapper's goroutine has no recover (the one
\* in conn.serve guards another goroutine) and c.cancelCtx() is not deferred:
\* the panic unwinds past it and terminates the process.
HandlerPanic(c, s) ==
  /\ ~crashed
  /\ UNCHANGED relayVars
  /\ UNCHANGED handshakeErr
  /\ s \in 1..Len(sessions[c])
  /\ sessions[c][s].h = "running"
  /\ sessions' = [sessions EXCEPT ![c][s].h = "panicked"]
  /\ crashed' = TRUE
  /\ UNCHANGED serveVars
  /\ UNCHANGED << pc, connStates, rwcClosed, errLog, pump, chanLog >>

cancelCtxTwice(n) == n + 2
\* The calls of the session's cancel function after one c.cancelCtx().
cancelCtx(n) == n + 1

\* c.cancelCtx() after the Handler returned; the wrapper's goroutine ends.
CancelCtx(c, s) ==
  /\ ~crashed
  /\ UNCHANGED relayVars
  /\ UNCHANGED handshakeErr
  /\ s \in 1..Len(sessions[c])
  /\ sessions[c][s].h = "returned"
  /\ sessions' = [sessions EXCEPT ![c][s].h = "done",
                                  ![c][s].cancels = cancelCtx(@)]
  /\ UNCHANGED serveVars
  /\ UNCHANGED << pc, connStates, rwcClosed, errLog, pump, chanLog, crashed >>

\* ctx.Done() of session s of connection c is closed: its own cancel ran, or
\* its parent context is a session's context that is cancelled.
RECURSIVE CtxDone(_, _)
CtxDone(c, s) ==
  \/ sessions[c][s].cancels > 0
  \/ /\ sessions[c][s].parent # 0
     /\ CtxDone(c, sessions[c][s].parent)

ConnStep(c) ==
  \/ ConnServeBegin(c)
  \/ \E err \in HandshakeResults : HandshakeDone(c, err)
  \/ \E t \in ChannelTypes, acceptOk \in BOOLEAN : NewChannel(c, t, acceptOk)
  \/ ChansClosed(c)
  \/ ServePanic(c)
  \/ CloseReport(c)

Sessions == 1..MaxChans

Next ==
  \/ AddHostKey
  \/ ServeBegin
  \/ \E e \in AcceptErrors : AcceptError(e, 0)
  \/ AcceptOk
  \/ \E c \in Conns : ConnServeBegin(c)
  \/ \E c \in Conns, err \in HandshakeResults : HandshakeDone(c, err)
  \/ \E c \in Conns, t \in ChannelTypes, acceptOk \in BOOLEAN : NewChannel(c, t, acceptOk)
  \/ \E c \in Conns : ChansClosed(c)
  \/ \E c \in Conns : ServePanic(c)
  \/ \E c \in Conns : CloseReport(c)
  \/ \E c \in Conns, s \in Sessions : HandlerReturn(c, s)
  \/ \E c \in Conns, s \in Sessions : HandlerPanic(c, s)
  \/ \E c \in Conns, s \in Sessions : CancelCtx(c, s)

\* The whole server. Its listener returns no temporary error (limit 0): one
\* changes only tempDelay, consec and Serve's position, which no goroutine of
\* a connection reads; ServeSpec explores them.
Spec == Init /\ [][Next]_vars

\* Serve alone, with temporary errors: the goroutines it starts are never
\* scheduled.
ServeNext ==
  \/ AddHostKey
  \/ ServeBegin
  \/ \E e \in AcceptErrors : AcceptError(e, MaxConsec)
  \/ SleepDone
  \/ AcceptOk

ServeSpec == Init /\ [][ServeNext]_vars

\* The Go scheduler runs every runnable goroutine; the handshake returns and
\* the transport ends the channel stream (at most MaxChans offers precede the
\* end). Nothing makes a Handler return.
FairSpec ==
  /\ Spec
  /\ WF_vars(ServeBegin)
  /\ \A c \in Conns : WF_vars(ConnStep(c))
  /\ \A c \in Conns : \A s \in Sessions : WF_vars(CancelCtx(c, s))

\* ------------------------------------------------------------ wrapRequests
\* The relay of one session's out-of-band requests, on its own: the transport
\* fills the source channel, the goroutine of wrapRequests forwards each
\* request, wrapped, over the unbuffered channel wrapped, the Handler receives.

serverVars == << HostKeyCount, servePc, serveErr, tempDelay, listenerClosed,
                 lastAccept, consec, nConns, pc, connStates, rwcClosed, errLog,
                 handshakeErr, pump, chanLog, sessions, crashed >>

RequestTypes == {"shell", "exec"}
HandlerKinds == {"range", "other"}

\* &Request{*r}
wrap(r) == [Request |-> r]
\* &r.Request
unwrap(w) == w.Request

\* Requests delivered so far, over all streams.
Delivered == SumLen(sent, MaxStreams)

\* wrapRequests(requests) is called for a session and its Handler is started:
\* wrapped is made, unbuffered, and the goroutine starts. A Handler of kind
\* "range" receives requests until the stream ends (for req := range r, or
\* DefaultHandler); any other may stop receiving and return when it likes.
wrapRequests(s, k) ==
  /\ fwd[s] = "none"
  /\ fwd' = [fwd EXCEPT ![s] = "recv"]
  /\ hnd' = [hnd EXCEPT ![s] = "running"]
  /\ kind' = [kind EXCEPT ![s] = k]
  /\ UNCHANGED << sent, requests, requestsClosed, held, wrappedClosed, received >>
  /\ UNCHANGED serverVars

\* The transport delivers a request of type ty on the session's source channel.
TransportSend(s, ty) ==
  /\ fwd[s] # "none"
  /\ ~requestsClosed[s]
  /\ Delivered < MaxMsgs
  /\ sent' = [sent EXCEPT ![s] = Append(@, [Type |-> ty])]
  /\ requests' = [requests EXCEPT ![s] = Append(@, [Type |-> ty])]
  /\ UNCHANGED << kind, requestsClosed, fwd, held, wrappedClosed, received, hnd >>
  /\ UNCHANGED serverVars

\* The transport closes the session's source channel.
TransportClose(s) ==
  /\ fwd[s] # "none"
  /\ ~requestsClosed[s]
  /\ requestsClosed' = [requestsClosed EXCEPT ![s] = TRUE]
  /\ UNCHANGED << kind, sent, requests, fwd, held, wrappedClosed, received, hnd >>
  /\ UNCHANGED serverVars

NewestRequest(q) == q[Len(q)]
\* What a receive on the source channel yields: its oldest request.
NextRequest(q) == q[1]

\* for r := range requests: the goroutine receives the next request.
ForwardRecv(s) ==
  /\ fwd[s] = "recv"
  /\ requests[s] # << >>
  /\ held' = [held EXCEPT ![s] = << wrap(NextRequest(requests[s])) >>]
  /\ requests' = [requests EXCEPT ![s] = Tail(@)]
  /\ fwd' = [fwd EXCEPT ![s] = "send"]
  /\ UNCHANGED << kind, sent, requestsClosed, wrappedClosed, received, hnd >>
  /\ UNCHANGED serverVars

\* wrapped <- &Request{*r} meets a receive of the Handler (wrapped is
\* unbuffered: the send completes only with a receiver).
ForwardSend(s) ==
  /\ fwd[s] = "send"
  /\ hnd[s] = "running"
  /\ received' = [received EXCEPT ![s] = @ \o held[s]]
  /\ held' = [held EXCEPT ![s] = << >>]
  /\ fwd' = [fwd EXCEPT ![s] = "recv"]
  /\ UNCHANGED << kind, sent, requests, requestsClosed, wrappedClosed, hnd >>
  /\ UNCHANGED serverVars

CloseWrappedOnExit == TRUE
\* Whether the goroutine closes wrapped when its loop ends: the function
\* literal has no close(wrapped).
ClosesWrapped == FALSE

\* The source channel is closed and drained: the range loop and the goroutine
\* end.
ForwardEnd(s) ==
  /\ fwd[s] = "recv"
  /\ requests[s] = << >>
  /\ requestsClosed[s]
  /\ fwd' = [fwd EXCEPT ![s] = "ended"]
  /\ wrappedClosed' = [wrappedClosed EXCEPT ![s] = ClosesWrapped]
  /\ UNCHANGED << kind, sent, requests, requestsClosed, held, received, hnd >>
  /\ UNCHANGED serverVars

\* The Handler returns: a ranging Handler when its range over the wrapped
\* channel ends, that is when the channel is closed; another one at will.
RelayHandlerReturn(s) ==
  /\ hnd[s] = "running"
  /\ kind[s] = "other" \/ wrappedClosed[s]
  /\ hnd' = [hnd EXCEPT ![s] = "returned"]
  /\ UNCHANGED << kind, sent, requests, requestsClosed, fwd, held, wrappedClosed,
                  received >>
  /\ UNCHANGED serverVars

RelayNext ==
  \/ \E s \in Streams, k \in HandlerKinds : wrapRequests(s, k)
  \/ \E s \in Streams, ty \in RequestTypes : TransportSend(s, ty)
  \/ \E s \in Streams : TransportClose(s)
  \/ \E s \in Streams : ForwardRecv(s)
  \/ \E s \in Streams : ForwardSend(s)
  \/ \E s \in Streams : ForwardEnd(s)
  \/ \E s \in Streams : RelayHandlerReturn(s)

RelaySpec == Init /\ [][RelayNext]_vars

\* The scheduler runs the forwarding goroutine whenever it can step, the
\* transport eventually closes every source channel, and a ranging Handler
\* receives whenever a request is offered and returns when its range ends.
\* Nothing makes another Handler receive or return.
RelayFairSpec ==
  /\ RelaySpec
  /\ \A s \in Streams : WF_vars(ForwardRecv(s))
  /\ \A s \in Streams : WF_vars(ForwardEnd(s))
  /\ \A s \in Streams : WF_vars(TransportClose(s))
  /\ \A s \in Streams : WF_vars(kind[s] = "range" /\ ForwardSend(s))
  /\ \A s \in Streams : WF_vars(kind[s] = "range" /\ RelayHandlerReturn(s))

\* =============================================================== claims

Reported(c, state) == state \in Range(connStates[c])

\* C1: the states the ConnState hook sees for one connection are New,
\* Handshake, Active, Closed in that order, Active possibly absent: the
\* sequence is strictly increasing (nothing twice, nothing out of order,
\* nothing after Closed), begins with New and continues with Handshake.
C1_HookOrder ==
  \A c \in Conns :
    LET q == connStates[c] IN
      /\ \A i \in 1..Len(q) : \A j \in 1..Len(q) : i < j => q[i] < q[j]
      /\ Len(q) >= 1 => q[1] = StateNew
      /\ Len(q) >= 2 => q[2] = StateHandshake
      /\ \A i \in 1..Len(q) : q[i] \in {StateNew, StateHandshake, StateActive, StateClosed}

\* Two connections interleaved, one closed after being Active and one closed
\* from Handshake.
C1_Witness ==
  \E c \in Conns, d \in Conns :
    /\ connStates[c] = << StateNew, StateHandshake, StateActive, StateClosed >>
    /\ connStates[d] = << StateNew, StateHandshake, StateClosed >>

\* C2: every accepted connection eventually has Closed reported, under fair
\* scheduling, whatever its Handlers do.
C2_ClosedEventually ==
  \A c \in Conns : (c <= nConns) ~> Reported(c, StateClosed)

\* C3: a panic inside a Handler is contained at the connection boundary: the
\* Server process keeps running.
C3_HandlerPanicContained ==
  \A c \in Conns : \A s \in 1..Len(sessions[c]) :
    sessions[c][s].h = "panicked" => ~crashed

\* C4: the context of a session is not cancelled while its Handler is still
\* running, whatever else happens (the connection closing, other sessions
\* finishing, an accept failure, Serve returning).
C4_NotCancelledWhileRunning ==
  \A c \in Conns : \A s \in 1..Len(sessions[c]) :
    sessions[c][s].h = "running" => ~CtxDone(c, s)

\* A Handler still runs, with its context open, on a connection that reported
\* Closed and whose other session is finished and cancelled, after Serve
\* returned.
C4_Witness ==
  \E c \in Conns : \E s \in 1..Len(sessions[c]) : \E r \in 1..Len(sessions[c]) :
    /\ sessions[c][s].h = "running"
    /\ sessions[c][r].h = "done"
    /\ r < s
    /\ Reported(c, StateClosed)
    /\ servePc = "returned"

\* C5: once the dispatch wrapper's Handler call has ended, normally or by a
\* panic, and the wrapper is over, the session's context is cancelled.
C5_CancelledHoweverHandlerEnds ==
  \A c \in Conns : \A s \in 1..Len(sessions[c]) :
    sessions[c][s].h \in {"done", "panicked"} => sessions[c][s].cancels >= 1

\* C6: Serve with a host-key count of zero returns ErrServerHasNoHostKeys
\* without calling Accept, creating a connection or invoking the hook.
C6_NoHostKeysRefused ==
  (servePc # "idle" /\ HostKeyCount = 0) =>
     /\ servePc = "returned"
     /\ serveErr = ErrServerHasNoHostKeys
     /\ lastAccept = NotCalled
     /\ nConns = 0
     /\ \A c \in Conns : connStates[c] = << >> /\ pc[c] = "none"

C6_Witness ==
  /\ HostKeyCount = 0
  /\ servePc = "returned"
  /\ serveErr = ErrServerHasNoHostKeys

RECURSIVE Pow2(_)
Pow2(n) == IF n = 0 THEN 1 ELSE 2 * Pow2(n - 1)

\* C7: the delay slept after the k-th consecutive temporary accept error is
\* min(5ms * 2^(k-1), 1s); a successful accept restarts the count, so the
\* next temporary error sleeps 5ms again.
C7_BackoffDelay ==
  servePc = "sleep" =>
    /\ consec >= 1
    /\ tempDelay = Min(5 * Millisecond * Pow2(consec - 1), 1000 * Millisecond)
    /\ tempDelay >= 5 * Millisecond
    /\ tempDelay <= 1000 * Millisecond

\* After a successful accept, the ninth temporary error in a row sleeps the
\* capped second (the eighth slept 640ms).
C7_Witness ==
  /\ servePc = "sleep"
  /\ nConns >= 1
  /\ consec = 9
  /\ tempDelay = 1000 * Millisecond

\* C8: an offer whose type is not "session" is rejected: it is not accepted,
\* starts no Handler, and leaves the connection Active at its channel loop,
\* ready for the next offer.
C8_NonSessionRejected ==
  [][ \A c \in Conns :
        (/\ Len(chanLog'[c]) = Len(chanLog[c]) + 1
         /\ chanLog'[c][Len(chanLog'[c])].ctype # "session")
        => /\ chanLog'[c][Len(chanLog'[c])].outcome = "rejected"
           /\ sessions' = sessions
           /\ pc[c] = "chans" /\ pc'[c] = "chans"
           /\ connStates' = connStates
           /\ rwcClosed' = rwcClosed
           /\ Reported(c, StateActive) /\ ~Reported(c, StateClosed) ]_vars

\* A connection rejected a direct-tcpip offer and then accepted a session.
C8_Witness ==
  \E c \in Conns :
    /\ Len(chanLog[c]) = 2
    /\ chanLog[c][1] = [ctype |-> "direct-tcpip", outcome |-> "rejected"]
    /\ chanLog[c][2] = [ctype |-> "session", outcome |-> "accepted"]
    /\ Len(sessions[c]) = 1

\* What the code is to treat as a temporary accept error.
TemporaryError(e) == e.netError /\ e.temporary

\* C9: started with a host key, Serve returns only when Accept returns a
\* non-temporary error: it then closes the listener, returns that very error
\* and creates no connection; a temporary error neither makes it return nor
\* closes the listener.
C9_ServeReturnsOnPermanentError ==
  [][ /\ (HostKeyCount > 0 /\ servePc # "returned" /\ servePc' = "returned")
         => /\ servePc = "accept"
            /\ lastAccept' \in AcceptErrors
            /\ ~TemporaryError(lastAccept')
            /\ serveErr' = lastAccept'
            /\ listenerClosed'
            /\ nConns' = nConns
            /\ connStates' = connStates
            /\ pc' = pc
      /\ (servePc = "accept" /\ servePc' # "accept" /\ TemporaryError(lastAccept'))
         => /\ servePc' = "sleep"
            /\ ~listenerClosed'
            /\ serveErr' = NoError ]_vars

\* Serve went through a temporary error and a successful accept and then
\* returned the non-net.Error error.
C9_Witness ==
  /\ servePc = "returned"
  /\ nConns >= 1
  /\ tempDelay > 0
  /\ serveErr.name = "closed"
  /\ listenerClosed

\* C10: while Handlers of earlier sessions of a connection have not returned,
\* the connection's loop is at its receive and can accept a further session.
C10_DispatchDoesNotBlock ==
  \A c \in Conns :
    (/\ ~crashed
     /\ Reported(c, StateActive)
     /\ ~rwcClosed[c]
     /\ \E s \in 1..Len(sessions[c]) : sessions[c][s].h = "running")
    => /\ pc[c] = "chans"
       /\ Offers < MaxChans => ENABLED NewChannel(c, "session", TRUE)

\* Two Handlers of one connection run at the same time.
C10_Witness ==
  \E c \in Conns :
    /\ Len(sessions[c]) = 2
    /\ sessions[c][1].h = "running"
    /\ sessions[c][2].h = "running"
    /\ pc[c] = "chans"

C12_FailureIsolated ==
  [][ \A c \in Conns :
        (pc[c] \in {"handshake", "chans"} /\ pc'[c] = "close")
        => /\ servePc' = servePc
           /\ serveErr' = serveErr
           /\ listenerClosed' = listenerClosed
           /\ nConns' = nConns
           /\ crashed' = crashed
           /\ \A d \in Conns \ {c} :
                /\ pc'[d] = pc[d]
                /\ connStates'[d] = connStates[d]
                /\ rwcClosed'[d] = rwcClosed[d]
                /\ chanLog'[d] = chanLog[d]
                /\ sessions'[d] = sessions[d] ]_vars

\* One connection failed its handshake and is closed; the other is Active
\* with a running Handler and Serve still accepts.
C12_Witness ==
  \E c \in Conns, d \in Conns :
    /\ handshakeErr[c] = "error"
    /\ pc[c] = "done"
    /\ pc[d] = "chans"
    /\ Len(sessions[d]) >= 1
    /\ sessions[d][1].h = "running"
    /\ ~CtxDone(d, 1)
    /\ servePc = "accept"

\* C13: the cancel function of a session is called at most once, only by the
\* dispatch wrapper after the Handler returned, and exactly once when the
\* wrapper of a returned Handler is over.
C13_CancelledExactlyOnce ==
  \A c \in Conns : \A s \in 1..Len(sessions[c]) :
    /\ sessions[c][s].cancels <= 1
    /\ sessions[c][s].cancels >= 1 => sessions[c][s].h = "done"
    /\ sessions[c][s].h = "done" => sessions[c][s].cancels = 1
    /\ sessions[c][s].h \in {"running", "returned", "panicked"}
         => sessions[c][s].cancels = 0

\* Both sessions of a connection are over, each cancelled once.
C13_Witness ==
  \E c \in Conns :
    /\ Len(sessions[c]) = 2
    /\ \A s \in 1..2 : sessions[c][s].h = "done" /\ sessions[c][s].cancels = 1

\* C14: a connection whose handshake failed never reports Active, starts no
\* global-message pump, accepts no channel and invokes no Handler: it is on
\* the close path straight from Handshake, and the failure is logged unless
\* it is io.EOF.
C14_HandshakeFailure ==
  \A c \in Conns :
    handshakeErr[c] \in {"EOF", "error"}
    => /\ connStates[c] \in { << StateNew, StateHandshake >>,
                              << StateNew, StateHandshake, StateClosed >> }
       /\ ~pump[c]
       /\ chanLog[c] = << >>
       /\ sessions[c] = << >>
       /\ pc[c] \in {"close", "done"}
       /\ rwcClosed[c]
       /\ errLog[c] = IF handshakeErr[c] = "error" THEN << "handshake" >> ELSE << >>

\* One handshake ended by io.EOF and one by another error, both closed.
C14_Witness ==
  \E c \in Conns, d \in Conns :
    /\ handshakeErr[c] = "EOF" /\ Reported(c, StateClosed)
    /\ handshakeErr[d] = "error" /\ Reported(d, StateClosed)

Accepted(q) == { i \in 1..Len(q) : q[i].outcome = "accepted" }

\* C15: a failed Accept of a session offer abandons the connection: the offer
\* gets no Handler, it is the last offer the connection processes, and the
\* connection is on its close path, where Closed is reported next.
C15_AcceptFailureAbandons ==
  \A c \in Conns :
    /\ Len(sessions[c]) = Cardinality(Accepted(chanLog[c]))
    /\ \A i \in 1..Len(chanLog[c]) :
         chanLog[c][i].outcome = "acceptFailed"
         => /\ i = Len(chanLog[c])
            /\ pc[c] \in {"close", "done"}
            /\ rwcClosed[c]
            /\ pc[c] = "done" => Reported(c, StateClosed)
            /\ (pc[c] = "close" /\ ~crashed) => ENABLED CloseReport(c)

\* After one accepted session, the Accept of a second offer failed and the
\* connection reported Closed.
C15_Witness ==
  \E c \in Conns :
    /\ Len(chanLog[c]) = 2
    /\ chanLog[c][1].outcome = "accepted"
    /\ chanLog[c][2].outcome = "acceptFailed"
    /\ Len(sessions[c]) = 1
    /\ Reported(c, StateClosed)

Count(q, x) == Cardinality({ i \in 1..Len(q) : q[i] = x })

\* C16: the close path runs exactly once on every exit path of conn.serve:
\* a connection that has not left conn.serve has its socket open and no
\* Closed; one that left it (handshake failure, accept failure, stream end,
\* recovered panic) has its socket closed, and Closed is reported once, after
\* the socket was closed.
C16_ClosePathOnce ==
  \A c \in Conns :
    /\ pc[c] \in {"none", "go", "handshake", "chans"}
         => ~rwcClosed[c] /\ Count(connStates[c], StateClosed) = 0
    /\ pc[c] = "close" => rwcClosed[c] /\ Count(connStates[c], StateClosed) = 0
    /\ pc[c] = "done" => rwcClosed[c] /\ Count(connStates[c], StateClosed) = 1
    /\ pc[c] \in {"none", "go", "handshake", "chans", "close", "done"}
    /\ ( \/ handshakeErr[c] \in {"EOF", "error"}
         \/ "panic" \in Range(errLog[c])
         \/ \E i \in 1..Len(chanLog[c]) : chanLog[c][i].outcome = "acceptFailed" )
       => pc[c] \in {"close", "done"}

\* One connection closed after a recovered panic, the other after the end of
\* its channel stream.
C16_Witness ==
  \E c \in Conns, d \in Conns :
    /\ pc[c] = "done" /\ errLog[c] = << "panic" >> /\ Reported(c, StateClosed)
    /\ pc[d] = "done" /\ errLog[d] = << >> /\ handshakeErr[d] = "nil"
    /\ chanLog[d] = << >> /\ Reported(d, StateClosed)

\* C18: every session's context is a child of the connection's base context:
\* it is cancelled only by its own cancel function, whatever happens to the
\* contexts of the other sessions of the connection.
C18_OwnCancelOnly ==
  \A c \in Conns : \A s \in 1..Len(sessions[c]) :
    /\ sessions[c][s].parent = 0
    /\ CtxDone(c, s) <=> sessions[c][s].cancels > 0

\* The later session of a connection is cancelled and the earlier one, whose
\* Handler has returned but whose wrapper has not cancelled yet, is not.
C18_Witness ==
  \E c \in Conns :
    /\ Len(sessions[c]) = 2
    /\ CtxDone(c, 2)
    /\ sessions[c][1].h = "returned"
    /\ ~CtxDone(c, 1)

Unwrapped(q) == [i \in 1..Len(q) |-> unwrap(q[i])]

\* C17: the relay preserves the order of each stream: what the Handler
\* received on the wrapped stream, unwrapped, is a prefix of what the
\* transport sent on the source stream; together with the request being sent
\* and those still buffered it is exactly what was sent, nothing duplicated,
\* dropped or reordered.
C17_RelayKeepsOrder ==
  \A s \in Streams :
    /\ Len(received[s]) <= Len(sent[s])
    /\ \A i \in 1..Len(received[s]) : unwrap(received[s][i]) = sent[s][i]
    /\ Unwrapped(received[s]) \o Unwrapped(held[s]) \o requests[s] = sent[s]

\* One Handler received shell then exec, as sent, while the other stream
\* carried a request of its own.
C17_Witness ==
  \E s \in Streams, r \in Streams :
    /\ s # r
    /\ sent[s] = << [Type |-> "shell"], [Type |-> "exec"] >>
    /\ received[s] = << wrap([Type |-> "shell"]), wrap([Type |-> "exec"]) >>
    /\ Len(received[r]) = 1

\* C19: once the transport has closed a session's source stream, a Handler
\* that consumes the wrapped stream until it ends eventually returns.
C19_RangingHandlerReturns ==
  \A s \in Streams :
    (requestsClosed[s] /\ kind[s] = "range") ~> (hnd[s] = "returned")

\* C20: after a session's Handler has returned, the forwarding goroutine of
\* wrapRequests eventually terminates.
C20_ForwarderTerminates ==
  \A s \in Streams : (hnd[s] = "returned") ~> (fwd[s] = "ended")

====
